---- MODULE Spec2Model ----
(***************************************************************************)
(* A model of the lawn-ai pipeline core:                                   *)
(*   src/ingestion/parser.py      parse_receipt                            *)
(*   src/analysis/forecasting.py  forecast_next_year,                      *)
(*                                generate_historical_table,               *)
(*                                categorize_product                       *)
(* Texts are character strings and the regular expressions of the parser   *)
(* are evaluated character by character.  Amounts are decimal fixed-point  *)
(* numbers (an integer count of 10^-Decimals); dates are the integers      *)
(* yyyymmdd, whose order is the order of the ISO strings the code compares.*)
(***************************************************************************)
EXTENDS Integers, Sequences, FiniteSets, TLC

VARIABLES
    pc,               \* position of the running function
    err,              \* the exception that left the function, or "none"
    pdf,              \* parse_receipt: the argument, [filename, text]
    parsed,           \* parse_receipt: the dict being filled and returned
    applied_matches,  \* parse_receipt: list(re.finditer(...))
    i,                \* parse_receipt: index of the loop over applied_matches
    total_volume,     \* parse_receipt: running total
    records,          \* forecast_next_year, generate_historical_table: the caller's list
    record_idx,       \* index of the loop "for record in records"
    monthly_data,     \* forecast_next_year: month name -> [products, notes]
    forecast,         \* forecast_next_year: the mapping returned
    embeddings,       \* generate_historical_table: the list of vectors
    historical,       \* generate_historical_table: "YYYY-MM" -> row data
    embedding_idx,    \* generate_historical_table: the embedding cursor
    full_data,        \* generate_historical_table: the dict returned
    prod_name,        \* categorize_product: the argument
    category,         \* categorize_product: the category returned
    request_count,    \* ProductSearcher: self.request_count
    api_requests,     \* ProductSearcher: the requests that went out to the search API
    calls             \* ProductSearcher: the position of each search_product call

parseVars == <<pdf, parsed, applied_matches, i, total_volume>>
recVars == <<records, record_idx>>
fcVars == <<monthly_data, forecast>>
histVars == <<embeddings, historical, embedding_idx, full_data>>
catVars == <<prod_name, category>>
searchVars == <<request_count, api_requests, calls>>
vars == <<pc, err, parseVars, recVars, fcVars, histVars, catVars, searchVars>>

(***************************************************************************)
(* Bounds of the model.                                                    *)
(***************************************************************************)
\* a document text is made of at most MaxSegs segments of Segs
MaxSegs == 3

\* round(avg_volume, 4): amounts are counted in units of 10^-Decimals
Decimals == 4
AmtScale == 10 ^ Decimals

\* the absent date (a date is the integer yyyymmdd, at least 10101)
None == 0

\* the variables of the functions a specification does not run
IdleParse ==
    /\ pdf = [filename |-> "", text |-> ""]
    /\ parsed = <<>>
    /\ applied_matches = <<>>
    /\ i = 1
    /\ total_volume = 0
IdleRecords == records = <<>> /\ record_idx = 1
IdleForecast == monthly_data = <<>> /\ forecast = <<>>
IdleHistorical ==
    /\ embeddings = <<>>
    /\ historical = <<>>
    /\ embedding_idx = 0
    /\ full_data = <<>>
IdleCategory == prod_name = "" /\ category = ""
IdleSearch == request_count = 0 /\ api_requests = 0 /\ calls = <<>>

(***************************************************************************)
(* Strings (Python str): 1-based positions; a Python slice s[a:b] is       *)
(* Sub(s, a+1, b).                                                         *)
(***************************************************************************)
Sub(s, a, b) == IF a > b \/ a > Len(s) THEN "" ELSE SubSeq(s, a, IF b > Len(s) THEN Len(s) ELSE b)
Ch(s, p) == IF p >= 1 /\ p <= Len(s) THEN SubSeq(s, p, p) ELSE ""

SetMin(S) == CHOOSE x \in S : \A y \in S : x <= y
SetMax(S) == CHOOSE x \in S : \A y \in S : x >= y

UpperAlpha == "ABCDEFGHIJKLMNOPQRSTUVWXYZ"
LowerAlpha == "abcdefghijklmnopqrstuvwxyz"
ToLower == [c \in {Ch(UpperAlpha, k) : k \in 1..26} |->
              Ch(LowerAlpha, CHOOSE k \in 1..26 : Ch(UpperAlpha, k) = c)]
ToUpper == [c \in {Ch(LowerAlpha, k) : k \in 1..26} |->
              Ch(UpperAlpha, CHOOSE k \in 1..26 : Ch(LowerAlpha, k) = c)]
LowerCh(c) == IF c \in DOMAIN ToLower THEN ToLower[c] ELSE c
UpperCh(c) == IF c \in DOMAIN ToUpper THEN ToUpper[c] ELSE c

RECURSIVE Upper(_)
\* str.upper()
Upper(s) == IF s = "" THEN "" ELSE UpperCh(Ch(s, 1)) \o Upper(Sub(s, 2, Len(s)))

RECURSIVE Lower(_)
\* str.lower()
Lower(s) == IF s = "" THEN "" ELSE LowerCh(Ch(s, 1)) \o Lower(Sub(s, 2, Len(s)))

\* \s and \d of the re module (ASCII)
IsSpace(c) == c \in {" ", "\n", "\t", "\r"}
IsDigit(c) == c \in {"0", "1", "2", "3", "4", "5", "6", "7", "8", "9"}
DigitVal(c) == CHOOSE n \in 0..9 : Ch("0123456789", n + 1) = c

\* the literal lit stands at position p of s (case-sensitive)
At(s, p, lit) == Sub(s, p, p + Len(lit) - 1) = lit /\ p + Len(lit) - 1 <= Len(s)
\* the same under re.IGNORECASE
AtCI(s, p, lit) ==
    /\ p >= 1
    /\ p + Len(lit) - 1 <= Len(s)
    /\ \A k \in 1..Len(lit) : LowerCh(Ch(s, p + k - 1)) = LowerCh(Ch(lit, k))

\* first position >= from where lit stands, 0 when there is none
FindCI(s, lit, from) ==
    LET C == {p \in from..Len(s) : AtCI(s, p, lit)}
    IN  IF C = {} THEN 0 ELSE SetMin(C)
Find(s, lit, from) ==
    LET C == {p \in from..Len(s) : At(s, p, lit)}
    IN  IF C = {} THEN 0 ELSE SetMin(C)
\* str.rfind: last position where lit stands, 0 when there is none
RFind(s, lit) ==
    LET C == {p \in 1..Len(s) : At(s, p, lit)}
    IN  IF C = {} THEN 0 ELSE SetMax(C)

\* end of the greedy run \s* starting at p: the first position >= p holding no space
SkipSpace(s, p) ==
    LET C == {q \in p..Len(s) : ~IsSpace(Ch(s, q))}
    IN  IF C = {} THEN (IF p > Len(s) THEN p ELSE Len(s) + 1) ELSE SetMin(C)
\* end of the greedy run [\d\.]+ starting at p
SkipNum(s, p) ==
    LET C == {q \in p..Len(s) : ~(IsDigit(Ch(s, q)) \/ Ch(s, q) = ".")}
    IN  IF C = {} THEN (IF p > Len(s) THEN p ELSE Len(s) + 1) ELSE SetMin(C)
\* str.strip()
Strip(s) ==
    LET C == {q \in 1..Len(s) : ~IsSpace(Ch(s, q))}
    IN  IF C = {} THEN "" ELSE Sub(s, SetMin(C), SetMax(C))

\* s.split('\n')[0]
FirstLine(s) ==
    LET n == Find(s, "\n", 1)
    IN  IF n = 0 THEN s ELSE Sub(s, 1, n - 1)

\* [line.strip() for line in s.split('\n') if line.strip()], last element ("" when the list is empty)
LastNonBlankLine(s) ==
    LET C == {q \in 1..Len(s) : ~IsSpace(Ch(s, q))}
    IN  IF C = {} THEN ""
        ELSE LET last == SetMax(C)
                 NL   == {q \in 1..last : Ch(s, q) = "\n"}
                 from == IF NL = {} THEN 1 ELSE SetMax(NL) + 1
             IN  Strip(Sub(s, from, last))

RECURSIVE DigitsVal(_)
\* int() of a string of digits
DigitsVal(s) == IF s = "" THEN 0 ELSE DigitsVal(Sub(s, 1, Len(s) - 1)) * 10 + DigitVal(Ch(s, Len(s)))

(***************************************************************************)
(* parse_receipt: the field patterns (src/ingestion/parser.py)             *)
(***************************************************************************)
NOTES_HEADER == "WHAT I DID AND WHAT TO EXPECT"
NOTES_FOOTER == "PRODUCTS APPLIED"

\* re.search(r"WHAT I DID AND WHAT TO EXPECT\s*(.*?)\n\s*PRODUCTS APPLIED", DOTALL|IGNORECASE),
\* group(1).strip(); "" when the pattern does not match
NotesOf(s) ==
    LET p == FindCI(s, NOTES_HEADER, 1)
        q == SkipSpace(s, p + Len(NOTES_HEADER))
        R == {r \in q..Len(s) : Ch(s, r) = "\n" /\ AtCI(s, SkipSpace(s, r + 1), NOTES_FOOTER)}
    IN  IF p = 0 \/ R = {} THEN "" ELSE Strip(Sub(s, q, SetMin(R) - 1))

AllDigits(s, a, b) == b <= Len(s) /\ \A k \in a..b : IsDigit(Ch(s, k))

\* re.search(r"(\d{3,5})\s*sqft", IGNORECASE), int(group(1)); 0 when the pattern does not match
SqftOf(s) ==
    LET Ok(p, n) == AllDigits(s, p, p + n - 1) /\ AtCI(s, SkipSpace(s, p + n), "sqft")
        C == {p \in 1..Len(s) : \E n \in 3..5 : Ok(p, n)}
    IN  IF C = {} THEN 0
        ELSE LET p == SetMin(C)
                 n == SetMax({m \in 3..5 : Ok(p, m)})
             IN  DigitsVal(Sub(s, p, p + n - 1))

\* re.search(label + r"\s*(.*?)\n", IGNORECASE), group(1).strip(); "" when the pattern does not match
LabelLineOf(s, label) ==
    LET p == FindCI(s, label, 1)
        q == SkipSpace(s, p + Len(label))
        r == Find(s, "\n", q)
    IN  IF p = 0 \/ r = 0 THEN "" ELSE Strip(Sub(s, q, r - 1))

IsLeap(y) == (y % 4 = 0 /\ y % 100 # 0) \/ y % 400 = 0
DaysIn(y, m) ==
    IF m = 2 THEN (IF IsLeap(y) THEN 29 ELSE 28)
    ELSE IF m \in {4, 6, 9, 11} THEN 30 ELSE 31

\* the token \d{1,2}/\d{1,2}/\d{4} standing at p: <<a, b>> are the lengths of its first two fields
DateShape(s, p) ==
    {ab \in (1..2) \X (1..2) :
        /\ AllDigits(s, p, p + ab[1] - 1)
        /\ Ch(s, p + ab[1]) = "/"
        /\ AllDigits(s, p + ab[1] + 1, p + ab[1] + ab[2])
        /\ Ch(s, p + ab[1] + ab[2] + 1) = "/"
        /\ AllDigits(s, p + ab[1] + ab[2] + 2, p + ab[1] + ab[2] + 5)}

\* mutant: the first token that is a calendar date is taken, invalid ones are passed over
DateOf_FirstValid(s) ==
    LET V == {p \in 1..Len(s) :
                \E ab \in DateShape(s, p) :
                    LET m == DigitsVal(Sub(s, p, p + ab[1] - 1))
                        d == DigitsVal(Sub(s, p + ab[1] + 1, p + ab[1] + ab[2]))
                        y == DigitsVal(Sub(s, p + ab[1] + ab[2] + 2, p + ab[1] + ab[2] + 5))
                    IN  m >= 1 /\ m <= 12 /\ y >= 1 /\ d >= 1 /\ d <= DaysIn(y, m)}
    IN  IF V = {} THEN None
        ELSE LET p  == SetMin(V)
                 ab == CHOOSE x \in DateShape(s, p) : TRUE
             IN  DigitsVal(Sub(s, p + ab[1] + ab[2] + 2, p + ab[1] + ab[2] + 5)) * 10000
                 + DigitsVal(Sub(s, p, p + ab[1] - 1)) * 100
                 + DigitsVal(Sub(s, p + ab[1] + 1, p + ab[1] + ab[2]))

\* re.search(r"(\d{1,2}/\d{1,2}/\d{4})"), then datetime.strptime(.., "%m/%d/%Y").date().isoformat()
\* with ValueError caught: the date yyyymmdd, None when there is no token or it is no calendar date
DateOf(s) ==
    LET C == {p \in 1..Len(s) : DateShape(s, p) # {}}
    IN  IF C = {} THEN None
        ELSE LET p  == SetMin(C)
                 ab == CHOOSE x \in DateShape(s, p) : TRUE
                 m  == DigitsVal(Sub(s, p, p + ab[1] - 1))
                 d  == DigitsVal(Sub(s, p + ab[1] + 1, p + ab[1] + ab[2]))
                 y  == DigitsVal(Sub(s, p + ab[1] + ab[2] + 2, p + ab[1] + ab[2] + 5))
             IN  IF m >= 1 /\ m <= 12 /\ y >= 1 /\ d >= 1 /\ d <= DaysIn(y, m)
                 THEN y * 10000 + m * 100 + d
                 ELSE None

(***************************************************************************)
(* parse_receipt: the APPLIED AMT occurrences                              *)
(***************************************************************************)
APPLIED_AMT == "APPLIED AMT:"
UNITS == {"FLOZ", "OZ", "GAL", "LB"}

\* the unit alternative (FLOZ|OZ|GAL|LB)(?:\s|/) standing at q
UnitAt(s, q) ==
    {u \in UNITS : AtCI(s, q, u) /\ (IsSpace(Ch(s, q + Len(u))) \/ Ch(s, q + Len(u)) = "/")}

\* r"APPLIED AMT:\s*\n?\s*([\d\.]+)\s+(FLOZ|OZ|GAL|LB)(?:\s|/)" (IGNORECASE) matches at p
AppliedAt(s, p) ==
    LET q2 == SkipSpace(s, p + Len(APPLIED_AMT))
        q3 == SkipNum(s, q2)
        q4 == SkipSpace(s, q3)
    IN  AtCI(s, p, APPLIED_AMT) /\ q3 > q2 /\ q4 > q3 /\ UnitAt(s, q4) # {}

\* the match object: start and end as positions (end is one past the last character),
\* g1 and g2 the two groups as written in the text
AppliedMatch(s, p) ==
    LET q2 == SkipSpace(s, p + Len(APPLIED_AMT))
        q3 == SkipNum(s, q2)
        q4 == SkipSpace(s, q3)
        u  == CHOOSE x \in UnitAt(s, q4) : TRUE
    IN  [start |-> p, end |-> q4 + Len(u) + 1,
         g1 |-> Sub(s, q2, q3 - 1), g2 |-> Sub(s, q4, q4 + Len(u) - 1)]

RECURSIVE FindAllApplied(_, _)
\* list(re.finditer(...)): the non-overlapping matches, left to right
FindAllApplied(s, from) ==
    LET C == {p \in from..Len(s) : AppliedAt(s, p)}
    IN  IF C = {} THEN <<>>
        ELSE LET m == AppliedMatch(s, SetMin(C))
             IN  <<m>> \o FindAllApplied(s, m.end)

\* float(tok) raises ValueError unless tok holds a digit and at most one dot
FloatOk(tok) ==
    /\ Cardinality({k \in 1..Len(tok) : Ch(tok, k) = "."}) <= 1
    /\ \E k \in 1..Len(tok) : IsDigit(Ch(tok, k))

RECURSIVE Zeros(_)
Zeros(n) == IF n = 0 THEN "" ELSE "0" \o Zeros(n - 1)

\* float(tok) of a digits-and-dot token, in units of 10^-Decimals
FloatVal(tok) ==
    LET d  == Find(tok, ".", 1)
        ip == IF d = 0 THEN tok ELSE Sub(tok, 1, d - 1)
        fp == IF d = 0 THEN "" ELSE Sub(tok, d + 1, Len(tok))
    IN  DigitsVal(ip) * AmtScale + DigitsVal(Sub(fp \o Zeros(Decimals), 1, Decimals))

\* mutant: the unit is upper-cased but FLOZ is not mapped
NormalizeUnit_KeepsFloz(g2) == Upper(g2)

\* amt_unit = group(2).upper(); if amt_unit == "FLOZ": amt_unit = "OZ"
NormalizeUnit(g2) ==
    LET amt_unit == Upper(g2)
    IN  IF amt_unit = "FLOZ" THEN "OZ" ELSE amt_unit

\* the lookahead (?=RATE:|PRODUCTS:|METHOD:|WHAT I|APPLIED AMT:|$) holds at r (IGNORECASE)
TargetsStop(s, r) ==
    \/ r = Len(s) + 1
    \/ r = Len(s) /\ Ch(s, r) = "\n"
    \/ \E lit \in {"RATE:", "PRODUCTS:", "METHOD:", "WHAT I", "APPLIED AMT:"} : AtCI(s, r, lit)

\* re.search(r"TARGETS:\s*(.*?)(?=...)", text_after, IGNORECASE|DOTALL), first line of the
\* stripped group cut to 100 characters; "" when there is no match
TargetsOf(text_after) ==
    LET t == FindCI(text_after, "TARGETS:", 1)
        q == SkipSpace(text_after, t + Len("TARGETS:"))
        r == SetMin({x \in q..(Len(text_after) + 1) : TargetsStop(text_after, x)})
        targets_text == Strip(Sub(text_after, q, r - 1))
    IN  IF t = 0 \/ targets_text = "" THEN "" ELSE Sub(FirstLine(targets_text), 1, 100)

\* mutant: the last "RATE:" of the whole text, also one behind the occurrence
RatePos_WholeText(text, m) == RFind(text, "RATE:")

\* rate_pos = text[:applied_match.start()].rfind("RATE:"), 0 for Python's -1
RatePos(text, m) == RFind(Sub(text, 1, m.start - 1), "RATE:")

\* mutant: the name is looked for from the start of the text for every occurrence
SearchStart_DocumentStart(matches, k) == 1

\* search_start: the end of the previous match, the start of the text for the first
SearchStart(matches, k) == IF k > 1 THEN matches[k - 1].end ELSE 1

\* prod_name: the last non-blank line of text[search_start:rate_pos].strip(), "" when there is none
ProdName(text, matches, k) ==
    LastNonBlankLine(Sub(text, SearchStart(matches, k), RatePos(text, matches[k]) - 1))

(***************************************************************************)
(* parse_receipt: the function, one action per step of its body            *)
(***************************************************************************)
\* the segments document texts are made of
Segs == {
    "Weed Stop\nRATE: 1 OZ\n",
    "Iron Plus\nRATE: 2\nAPPLIED AMT: 10 GAL\n",
    "APPLIED AMT:\n2.5 FLOZ/1000\n",
    "APPLIED AMT: 1.5 oz\n",
    "APPLIED AMT: 4 LB",
    "APPLIED AMT: 1.2.3 Gal\n",
    "APPLIED AMT: . OZ\n",
    " TARGETS: Crabgrass\nBroadleaf\n",
    "WHAT I DID AND WHAT TO EXPECT\nFed lawn\nPRODUCTS APPLIED\n",
    "METHOD: Spray\nAREAS: Front\n4500 sqft\n",
    "5/1/2024\n",
    "2/30/2024\n" }

RECURSIVE Join(_)
Join(q) == IF q = <<>> THEN "" ELSE Head(q) \o Join(Tail(q))

\* load_pdfs hands over doc_text.strip()
Texts == {Strip(Join(q)) : q \in UNION {[1..n -> Segs] : n \in 0..MaxSegs}}

\* parsed = {...}: the defaults
DefaultParsed(filename) ==
    [filename |-> filename, notes |-> "", products |-> <<>>, volume |-> 0,
     property_sqft |-> 0, method |-> "", areas |-> "", date |-> None]

ParseInit ==
    /\ pdf \in {[filename |-> "receipt.pdf", text |-> t] : t \in Texts}
    /\ pc = "parse_fields"
    /\ err = "none"
    /\ parsed = DefaultParsed(pdf.filename)
    /\ applied_matches = <<>>
    /\ i = 1
    /\ total_volume = 0
    /\ IdleRecords /\ IdleForecast /\ IdleHistorical /\ IdleCategory /\ IdleSearch

\* mutant: the fields are read only from a text that has an APPLIED AMT occurrence
ParseFields_OnlyWithProducts ==
    /\ pc = "parse_fields"
    /\ parsed' = IF FindAllApplied(pdf.text, 1) = <<>> THEN parsed
                  ELSE [parsed EXCEPT !.notes = NotesOf(pdf.text),
                                      !.property_sqft = SqftOf(pdf.text),
                                      !.method = LabelLineOf(pdf.text, "METHOD:"),
                                      !.areas = LabelLineOf(pdf.text, "AREAS:"),
                                      !.date = DateOf(pdf.text)]
    /\ applied_matches' = FindAllApplied(pdf.text, 1)
    /\ i' = 1
    /\ total_volume' = 0
    /\ pc' = "parse_loop"
    /\ UNCHANGED <<err, pdf>>
    /\ UNCHANGED <<recVars, fcVars, histVars, catVars, searchVars>>

\* lines 20-71: the five field patterns, then the list of APPLIED AMT matches
ParseFields ==
    /\ pc = "parse_fields"
    /\ parsed' = [parsed EXCEPT !.notes = NotesOf(pdf.text),
                                !.property_sqft = SqftOf(pdf.text),
                                !.method = LabelLineOf(pdf.text, "METHOD:"),
                                !.areas = LabelLineOf(pdf.text, "AREAS:"),
                                !.date = DateOf(pdf.text)]
    /\ applied_matches' = FindAllApplied(pdf.text, 1)
    /\ i' = 1
    /\ total_volume' = 0
    /\ pc' = "parse_loop"
    /\ UNCHANGED <<err, pdf>>
    /\ UNCHANGED <<recVars, fcVars, histVars, catVars, searchVars>>

\* line 74: float(applied_match.group(1)) raises ValueError, which nothing catches
ParseRaise ==
    /\ pc = "parse_loop"
    /\ i <= Len(applied_matches)
    /\ ~FloatOk(applied_matches[i].g1)
    /\ pc' = "parse_raised"
    /\ err' = "ValueError"
    /\ UNCHANGED <<pdf, parsed, applied_matches, i, total_volume>>
    /\ UNCHANGED <<recVars, fcVars, histVars, catVars, searchVars>>

\* lines 85-87: no "RATE:" before the match, continue
ParseSkipNoRate ==
    /\ pc = "parse_loop"
    /\ i <= Len(applied_matches)
    /\ FloatOk(applied_matches[i].g1)
    /\ RatePos(pdf.text, applied_matches[i]) = 0
    /\ i' = i + 1
    /\ UNCHANGED <<pc, err, pdf, parsed, applied_matches, total_volume>>
    /\ UNCHANGED <<recVars, fcVars, histVars, catVars, searchVars>>

\* mutant: a skipped occurrence still adds its amount to the total
ParseSkipNoName_AddsAmount ==
    /\ pc = "parse_loop"
    /\ i <= Len(applied_matches)
    /\ FloatOk(applied_matches[i].g1)
    /\ RatePos(pdf.text, applied_matches[i]) # 0
    /\ ProdName(pdf.text, applied_matches, i) = ""
    /\ total_volume' = total_volume + FloatVal(applied_matches[i].g1)
    /\ i' = i + 1
    /\ UNCHANGED <<pc, err, pdf, parsed, applied_matches>>
    /\ UNCHANGED <<recVars, fcVars, histVars, catVars, searchVars>>

\* lines 96-104: no non-blank line between search_start and "RATE:", continue
ParseSkipNoName ==
    /\ pc = "parse_loop"
    /\ i <= Len(applied_matches)
    /\ FloatOk(applied_matches[i].g1)
    /\ RatePos(pdf.text, applied_matches[i]) # 0
    /\ ProdName(pdf.text, applied_matches, i) = ""
    /\ i' = i + 1
    /\ UNCHANGED <<pc, err, pdf, parsed, applied_matches, total_volume>>
    /\ UNCHANGED <<recVars, fcVars, histVars, catVars, searchVars>>

\* the dict prod of lines 121-127
Prod(text, matches, k) ==
    [name |-> ProdName(text, matches, k),
     rate |-> 0,
     applied_amt |-> FloatVal(matches[k].g1),
     unit |-> NormalizeUnit(matches[k].g2),
     targets |-> TargetsOf(Sub(text, matches[k].end, Len(text)))]

\* lines 74-130: a product is emitted and its amount added to the total
ParseEmit ==
    /\ pc = "parse_loop"
    /\ i <= Len(applied_matches)
    /\ FloatOk(applied_matches[i].g1)
    /\ RatePos(pdf.text, applied_matches[i]) # 0
    /\ ProdName(pdf.text, applied_matches, i) # ""
    /\ total_volume' = total_volume + FloatVal(applied_matches[i].g1)
    /\ parsed' = [parsed EXCEPT !.products = Append(@, Prod(pdf.text, applied_matches, i))]
    /\ i' = i + 1
    /\ UNCHANGED <<pc, err, pdf, applied_matches>>
    /\ UNCHANGED <<recVars, fcVars, histVars, catVars, searchVars>>

\* lines 132-134: parsed["volume"] = total_volume; return parsed
ParseReturn ==
    /\ pc = "parse_loop"
    /\ i > Len(applied_matches)
    /\ parsed' = [parsed EXCEPT !.volume = total_volume]
    /\ pc' = "parse_done"
    /\ UNCHANGED <<err, pdf, applied_matches, i, total_volume>>
    /\ UNCHANGED <<recVars, fcVars, histVars, catVars, searchVars>>

ParseNext ==
    \/ ParseFields
    \/ ParseRaise
    \/ ParseSkipNoRate
    \/ ParseSkipNoName
    \/ ParseEmit
    \/ ParseReturn

SpecParse == ParseInit /\ [][ParseNext]_vars

RECURSIVE SumAmt(_)
\* sum(p["applied_amt"] for p in products)
SumAmt(products) == IF products = <<>> THEN 0 ELSE Head(products).applied_amt + SumAmt(Tail(products))

(***************************************************************************)
(* Record collections (the output of parse_receipt, the input of the       *)
(* forecaster and of the historical table builder)                         *)
(***************************************************************************)
\* a collection holds at most MaxRecs records
MaxRecs == 3

Amt(units, tenths) == units * AmtScale + tenths * (AmtScale \div 10)

NitrogenBlend10 == [name |-> "Nitrogen Blend", rate |-> 0, applied_amt |-> Amt(10, 0),
                    unit |-> "OZ", targets |-> "Growth"]
NitrogenBlend14 == [name |-> "Nitrogen Blend", rate |-> 0, applied_amt |-> Amt(14, 0),
                    unit |-> "LB", targets |-> ""]
WeedStop == [name |-> "Weed Stop", rate |-> 0, applied_amt |-> Amt(2, 5),
             unit |-> "GAL", targets |-> "Crabgrass"]
\* an amount with three decimals, 1.125
TalstarIron == [name |-> "Talstar Iron", rate |-> 0, applied_amt |-> Amt(1, 0) + AmtScale \div 8,
                unit |-> "OZ", targets |-> ""]

\* the dates of the records: absent, or yyyymmdd (two years of March, two days of one
\* March, and an April)
Dates == {None, 20230310, 20240305, 20240320, 20240412}

Record(date, notes, products) ==
    [filename |-> "receipt.pdf", notes |-> notes, products |-> products,
     volume |-> SumAmt(products), property_sqft |-> 0, method |-> "", areas |-> "",
     date |-> date]

SeqsUpTo(S, n) == UNION {[1..k -> S] : k \in 0..n}

\* date_obj.month of datetime.fromisoformat(record["date"])
MonthOf(date) == (date \div 100) % 100
\* date_obj.strftime("%Y-%m"), as the integer yyyymm
YearMonthOf(date) == date \div 100

\* "not record.get("date")": None is false (and so would the empty string be)
NoDate(record) == record.date = None
\* "record.get("notes")" and "record.get("products")" are false when empty
NoNotes(record) == record.notes = ""
NoProducts(record) == record.products = <<>>

(***************************************************************************)
(* forecast_next_year (src/analysis/forecasting.py)                        *)
(***************************************************************************)
month_names == <<"January", "February", "March", "April", "May", "June",
                 "July", "August", "September", "October", "November", "December">>

\* date_obj.strftime("%B")
MonthName(date) == month_names[MonthOf(date)]

\* f"Month_{i}"
MonthKey(m) == "Month_" \o ToString(m)

\* the sort key r.get("date", ""): the comparison of two keys raises TypeError when one
\* of them is None, and every element of a list of two or more is compared
SortRaises(recs) == Len(recs) >= 2 /\ \E k \in 1..Len(recs) : recs[k].date = None

\* the orders a failed list.sort may leave the list in
Reorderings(recs) ==
    {[k \in 1..Len(recs) |-> recs[f[k]]] : f \in Permutations(1..Len(recs))}

RECURSIVE InsertDesc(_, _)
\* x put behind every element whose date is not smaller (the sort is stable)
InsertDesc(sorted, x) ==
    IF sorted = <<>> THEN <<x>>
    ELSE IF Head(sorted).date >= x.date THEN <<Head(sorted)>> \o InsertDesc(Tail(sorted), x)
    ELSE <<x>> \o sorted

RECURSIVE SortDesc_Ascending(_)
\* mutant: the sort without reverse=True, earliest date first
SortDesc_Ascending(recs) ==
    IF recs = <<>> THEN <<>>
    ELSE LET rest == SortDesc_Ascending(Tail(recs))
             x == Head(recs)
             before == SelectSeq(rest, LAMBDA y : y.date < x.date)
             after == SelectSeq(rest, LAMBDA y : y.date >= x.date)
         IN  before \o <<x>> \o after

RECURSIVE SortDesc(_)
\* records.sort(key=lambda r: r.get("date", ""), reverse=True)
SortDesc(recs) ==
    IF recs = <<>> THEN <<>>
    ELSE InsertDesc(SortDesc(SubSeq(recs, 1, Len(recs) - 1)), recs[Len(recs)])

RECURSIVE AddProducts_LastWins(_, _)
\* mutant: every occurrence of a product overwrites the unit and targets of its entry
AddProducts_LastWins(prods, products) ==
    IF products = <<>> THEN prods
    ELSE LET product == Head(products)
             volumes == IF product.name \in DOMAIN prods THEN prods[product.name].volumes ELSE <<>>
             added == [volumes |-> Append(volumes, product.applied_amt),
                       unit |-> product.unit, targets |-> product.targets]
         IN  AddProducts_LastWins([n \in DOMAIN prods \cup {product.name} |->
                                     IF n = product.name THEN added ELSE prods[n]],
                                  Tail(products))

RECURSIVE AddProducts(_, _)
\* lines 40-53: each product of the record appended to its entry of the month's products
AddProducts(prods, products) ==
    IF products = <<>> THEN prods
    ELSE LET product == Head(products)
             entry == IF product.name \in DOMAIN prods
                      THEN prods[product.name]
                      ELSE [volumes |-> <<>>, unit |-> product.unit, targets |-> product.targets]
             added == [entry EXCEPT !.volumes = Append(@, product.applied_amt)]
         IN  AddProducts([n \in DOMAIN prods \cup {product.name} |->
                            IF n = product.name THEN added ELSE prods[n]],
                         Tail(products))

\* lines 31-53: the record grouped under its month name
GroupRecord(md, record) ==
    LET month_key == MonthName(record.date)
        bucket == IF month_key \in DOMAIN md THEN md[month_key]
                  ELSE [products |-> <<>>, notes |-> <<>>]
        noted == IF NoNotes(record) THEN bucket
                 ELSE [bucket EXCEPT !.notes = Append(@, record.notes)]
        grouped == IF NoProducts(record) THEN noted
                   ELSE [noted EXCEPT !.products = AddProducts(@, record.products)]
    IN  [n \in DOMAIN md \cup {month_key} |-> IF n = month_key THEN grouped ELSE md[n]]

RECURSIVE SumSeq(_)
SumSeq(q) == IF q = <<>> THEN 0 ELSE Head(q) + SumSeq(Tail(q))

\* n / d rounded to the nearest integer, a tie to the even one (d > 0, n >= 0)
RoundDiv(n, d) ==
    LET q == n \div d
        rem == n % d
    IN  IF 2 * rem > d \/ (2 * rem = d /\ q % 2 = 1) THEN q + 1 ELSE q

\* mutant: the mean cut to 4 decimals instead of rounded
RoundedMean_Truncated(volumes) == SumSeq(volumes) \div Len(volumes)

\* round(np.mean(volumes), 4), in units of 10^-Decimals
RoundedMean(volumes) == RoundDiv(SumSeq(volumes), Len(volumes))

\* lines 64-80: the entry of one month
ForecastEntry(md, m) ==
    IF month_names[m] \in DOMAIN md
    THEN LET data == md[month_names[m]]
         IN  [products |-> [n \in DOMAIN data.products |->
                              [volume |-> RoundedMean(data.products[n].volumes),
                               unit |-> data.products[n].unit,
                               targets |-> data.products[n].targets]],
              notes |-> IF data.notes # <<>> THEN data.notes[1] ELSE ""]
    ELSE [products |-> <<>>, notes |-> ""]

\* lines 61-82: the twelve slots
BuildForecast(md) ==
    [key \in {MonthKey(m) : m \in 1..12} |->
        ForecastEntry(md, CHOOSE m \in 1..12 : MonthKey(m) = key)]

RECURSIVE GroupAll(_, _)
\* lines 24-53: the loop over the sorted list, from the grouping md
GroupAll(md, recs) ==
    IF recs = <<>> THEN md
    ELSE GroupAll(IF NoDate(Head(recs)) THEN md ELSE GroupRecord(md, Head(recs)), Tail(recs))

\* forecast_next_year(recs, trends) as a function of the list, where the sort does not raise
ForecastOf(recs) == BuildForecast(GroupAll(<<>>, SortDesc(recs)))

\* the products and notes the records of the forecaster are made of
ForecastRecords ==
    {Record(d, c[1], c[2]) :
        d \in Dates,
        c \in {<<"", <<>>>>,
               <<"Applied pre-emergent", <<NitrogenBlend10>>>>,
               <<"Watered in", <<NitrogenBlend14, WeedStop>>>>,
               <<"", <<NitrogenBlend10, NitrogenBlend14>>>>}}

ForecastInit ==
    /\ records \in SeqsUpTo(ForecastRecords, MaxRecs)
    /\ record_idx = 1
    /\ pc = "forecast_sort"
    /\ err = "none"
    /\ monthly_data = <<>>
    /\ forecast = <<>>
    /\ IdleParse /\ IdleHistorical /\ IdleCategory /\ IdleSearch

\* line 22: the sort raises TypeError on a collection of two or more records one of which
\* has no date; list.sort may leave the list in any order then
ForecastSortRaise ==
    /\ pc = "forecast_sort"
    /\ SortRaises(records)
    /\ records' \in Reorderings(records)
    /\ pc' = "forecast_raised"
    /\ err' = "TypeError"
    /\ UNCHANGED <<record_idx, fcVars>>
    /\ UNCHANGED <<parseVars, histVars, catVars, searchVars>>

\* lines 19-22: monthly_data = {} and the caller's list sorted in place, latest date first
ForecastSort ==
    /\ pc = "forecast_sort"
    /\ ~SortRaises(records)
    /\ records' = SortDesc(records)
    /\ monthly_data' = <<>>
    /\ record_idx' = 1
    /\ pc' = "forecast_loop"
    /\ UNCHANGED <<err, forecast>>
    /\ UNCHANGED <<parseVars, histVars, catVars, searchVars>>

\* lines 25-26: a record without a date is passed over
ForecastSkipUndated ==
    /\ pc = "forecast_loop"
    /\ record_idx <= Len(records)
    /\ NoDate(records[record_idx])
    /\ record_idx' = record_idx + 1
    /\ UNCHANGED <<pc, err, records, fcVars>>
    /\ UNCHANGED <<parseVars, histVars, catVars, searchVars>>

\* lines 28-53: a dated record is grouped under its month name
ForecastGroup ==
    /\ pc = "forecast_loop"
    /\ record_idx <= Len(records)
    /\ ~NoDate(records[record_idx])
    /\ monthly_data' = GroupRecord(monthly_data, records[record_idx])
    /\ record_idx' = record_idx + 1
    /\ UNCHANGED <<pc, err, records, forecast>>
    /\ UNCHANGED <<parseVars, histVars, catVars, searchVars>>

\* lines 56-82: the forecast is built and returned
ForecastReturn ==
    /\ pc = "forecast_loop"
    /\ record_idx > Len(records)
    /\ forecast' = BuildForecast(monthly_data)
    /\ pc' = "forecast_done"
    /\ UNCHANGED <<err, recVars, monthly_data>>
    /\ UNCHANGED <<parseVars, histVars, catVars, searchVars>>

ForecastNext ==
    \/ ForecastSortRaise
    \/ ForecastSort
    \/ ForecastSkipUndated
    \/ ForecastGroup
    \/ ForecastReturn

SpecForecast == ForecastInit /\ [][ForecastNext]_vars

(***************************************************************************)
(* categorize_product (src/analysis/forecasting.py, nested in              *)
(* generate_historical_table)                                              *)
(***************************************************************************)
\* a product name is made of at most MaxWords words of CatWords
MaxWords == 2

\* mutant: "iron" is no Fertilizer keyword
fertilizer_keywords_NoIron == {"nitrogen", "potash", "phosphorus", "sulfur", "scu", "ubm"}

fertilizer_keywords == {"nitrogen", "potash", "phosphorus", "sulfur", "scu", "ubm", "iron"}
weed_keywords == {"weed", "manor", "atrazine", "certainty", "herbicide", "dicamba", "mcpa",
                  "mecoprop", "sulfosulfuron", "prodiamine", "indaziflam", "halosulfuron",
                  "celsius", "change up", "barricade", "specticle"}
iron_keywords == {"iron", "spt iron"}
sulfur_keywords == {"sulfur", "dispersable"}
insect_keywords == {"insect", "talstar", "bifenthrin", "acelepryn", "thiamethoxam",
                    "chlorantraniliprole"}
surfactant_keywords == {"surfactant", "non-ionic"}

\* any(x in prod_lower for x in keywords)
AnyIn(keywords, prod_lower) == \E x \in keywords : Find(prod_lower, x, 1) # 0

\* mutant: the Insecticide keywords are checked first
categorize_product_InsecticideFirst(name) ==
    LET prod_lower == Lower(name)
    IN  IF AnyIn(insect_keywords, prod_lower) THEN "Insecticide"
        ELSE IF AnyIn(fertilizer_keywords, prod_lower) THEN "Fertilizer"
        ELSE IF AnyIn(weed_keywords, prod_lower) THEN "Weed Control"
        ELSE IF AnyIn(iron_keywords, prod_lower) THEN "Iron/Micronutrient"
        ELSE IF AnyIn(sulfur_keywords, prod_lower) THEN "Sulfur"
        ELSE IF AnyIn(surfactant_keywords, prod_lower) THEN "Surfactant"
        ELSE "Other"

\* lines 99-116
categorize_product(name) ==
    LET prod_lower == Lower(name)
    IN  IF AnyIn(fertilizer_keywords, prod_lower) THEN "Fertilizer"
        ELSE IF AnyIn(weed_keywords, prod_lower) THEN "Weed Control"
        ELSE IF AnyIn(iron_keywords, prod_lower) THEN "Iron/Micronutrient"
        ELSE IF AnyIn(sulfur_keywords, prod_lower) THEN "Sulfur"
        ELSE IF AnyIn(insect_keywords, prod_lower) THEN "Insecticide"
        ELSE IF AnyIn(surfactant_keywords, prod_lower) THEN "Surfactant"
        ELSE "Other"

\* the words product names are made of
CatWords == {"Nitrogen", "IRON", "Weed", "Sulfosulfuron", "Dispersable", "Sulfur",
             "Talstar", "INSECT", "Surfactant", "Non-Ionic", "Plus", "Change"}

RECURSIVE JoinWords(_)
JoinWords(q) ==
    IF q = <<>> THEN ""
    ELSE IF Len(q) = 1 THEN q[1]
    ELSE Head(q) \o " " \o JoinWords(Tail(q))

CatNames == {JoinWords(q) : q \in SeqsUpTo(CatWords, MaxWords)}

CatInit ==
    /\ prod_name \in CatNames
    /\ category = ""
    /\ pc = "cat_call"
    /\ err = "none"
    /\ IdleParse /\ IdleRecords /\ IdleForecast /\ IdleHistorical /\ IdleSearch

\* category = categorize_product(prod_name)
Categorize ==
    /\ pc = "cat_call"
    /\ category' = categorize_product(prod_name)
    /\ pc' = "cat_done"
    /\ UNCHANGED <<err, prod_name>>
    /\ UNCHANGED <<parseVars, recVars, fcVars, histVars, searchVars>>

CatNext == Categorize

SpecCat == CatInit /\ [][CatNext]_vars

(***************************************************************************)
(* generate_historical_table (src/analysis/forecasting.py)                 *)
(***************************************************************************)
\* the embedding list holds at most MaxEmb vectors
MaxEmb == 2

\* embedding_vector = None
NoEmbedding == <<>>

\* the k-th vector of the embedding list
Vec(k) == <<k, k + 10>>

\* notes is empty or whitespace only: record.get("notes") and record.get("notes").strip()
BlankNotes(record) == record.notes = "" \/ Strip(record.notes) = ""

\* f"[{len(embedding_vector)} dims]" if embedding_vector else "N/A"
EmbeddingSummary(v) == IF v = NoEmbedding THEN "N/A" ELSE "[" \o ToString(Len(v)) \o " dims]"

\* mutant: the next vector is taken whenever one is left, whatever the notes
TakesEmbedding_IgnoresNotes(record, idx, embs) == idx < Len(embs)

\* line 133: the record takes the next unused vector
TakesEmbedding(record, idx, embs) == ~BlankNotes(record) /\ idx < Len(embs)

\* lines 137-145: the row data of a year-month seen for the first time
NewMonth(record, idx, embs) ==
    LET embedding_vector == IF TakesEmbedding(record, idx, embs) THEN embs[idx + 1] ELSE NoEmbedding
    IN  [date |-> record.date,
         products |-> <<>>,
         product_categories |-> <<>>,
         notes |-> record.notes,
         embedding |-> embedding_vector,
         embedding_summary |-> EmbeddingSummary(embedding_vector),
         volume_total |-> 0]

RECURSIVE CountProducts_LastAmount(_, _)
\* mutant: a repeated product keeps the amount of its last occurrence instead of the sum
CountProducts_LastAmount(month, products) ==
    IF products = <<>> THEN month
    ELSE LET product == Head(products)
             cat == categorize_product(product.name)
             prods == month.products
             cats == month.product_categories
             entry == IF product.name \in DOMAIN prods
                      THEN [prods[product.name] EXCEPT !.volume = product.applied_amt]
                      ELSE [volume |-> product.applied_amt, unit |-> product.unit, category |-> cat]
             count == IF cat \in DOMAIN cats THEN cats[cat] + 1 ELSE 1
         IN  CountProducts_LastAmount(
                [month EXCEPT
                    !.products = [n \in DOMAIN prods \cup {product.name} |->
                                    IF n = product.name THEN entry ELSE prods[n]],
                    !.product_categories = [c \in DOMAIN cats \cup {cat} |->
                                    IF c = cat THEN count ELSE cats[c]],
                    !.volume_total = @ + product.applied_amt],
                Tail(products))

RECURSIVE CountProducts(_, _)
\* lines 148-166: the products of a record added to the row data of its year-month
CountProducts(month, products) ==
    IF products = <<>> THEN month
    ELSE LET product == Head(products)
             cat == categorize_product(product.name)
             prods == month.products
             cats == month.product_categories
             entry == IF product.name \in DOMAIN prods
                      THEN [prods[product.name] EXCEPT !.volume = @ + product.applied_amt]
                      ELSE [volume |-> product.applied_amt, unit |-> product.unit, category |-> cat]
             count == IF cat \in DOMAIN cats THEN cats[cat] + 1 ELSE 1
         IN  CountProducts(
                [month EXCEPT
                    !.products = [n \in DOMAIN prods \cup {product.name} |->
                                    IF n = product.name THEN entry ELSE prods[n]],
                    !.product_categories = [c \in DOMAIN cats \cup {cat} |->
                                    IF c = cat THEN count ELSE cats[c]],
                    !.volume_total = @ + product.applied_amt],
                Tail(products))

RECURSIVE ReplaceAll(_, _, _)
\* str.replace(old, new)
ReplaceAll(str, old, new) ==
    IF Len(str) < Len(old) THEN str
    ELSE IF At(str, 1, old) THEN new \o ReplaceAll(Sub(str, Len(old) + 1, Len(str)), old, new)
    ELSE Ch(str, 1) \o ReplaceAll(Sub(str, 2, Len(str)), old, new)

\* month_data["notes"][:100].replace('\n', ' ').replace('  ', ' ')
NotesPreview(notes) == ReplaceAll(ReplaceAll(Sub(notes, 1, 100), "\n", " "), "  ", " ")

\* the category names in the order sorted() gives strings
SortedCategories == <<"Fertilizer", "Insecticide", "Iron/Micronutrient", "Other", "Sulfur",
                      "Surfactant", "Weed Control">>

\* lines 175-179: sorted(list(all_categories))
AllCategories(hist) ==
    SelectSeq(SortedCategories,
              LAMBDA c : \E ym \in DOMAIN hist : c \in DOMAIN hist[ym].product_categories)

RECURSIVE SortedKeys(_)
\* the keys of sorted(historical.items()), ascending
SortedKeys(S) == IF S = {} THEN <<>> ELSE <<SetMin(S)>> \o SortedKeys(S \ {SetMin(S)})

\* round(month_data["volume_total"], 2), in units of 10^-Decimals
Round2(v) == RoundDiv(v, AmtScale \div 100) * (AmtScale \div 100)

\* lines 182-198: the row of one year-month
TableRow(hist, ym) ==
    LET month_data == hist[ym]
        cats == AllCategories(hist)
    IN  [Month |-> ym,
         Date |-> month_data.date,
         Categories |-> [c \in {cats[k] : k \in 1..Len(cats)} |->
                           IF c \in DOMAIN month_data.product_categories
                           THEN month_data.product_categories[c] ELSE 0],
         Total_Volume |-> Round2(month_data.volume_total),
         Embedding_Summary |-> month_data.embedding_summary,
         Notes_Preview |-> NotesPreview(month_data.notes)]

\* a year-month yyyymm written "YYYY-MM"
YearMonthString(ym) ==
    ToString(ym \div 100) \o "-" \o (IF ym % 100 < 10 THEN "0" ELSE "") \o ToString(ym % 100)

\* lines 169-217: the dict returned, for a non-empty historical
BuildFullData(hist, embs) ==
    LET keys == SortedKeys(DOMAIN hist)
    IN  [table |-> [k \in 1..Len(keys) |-> TableRow(hist, keys[k])],
         product_categories |-> AllCategories(hist),
         embeddings |-> [ym \in {x \in DOMAIN hist : hist[x].embedding # NoEmbedding} |->
                           [embedding |-> hist[ym].embedding,
                            embedding_shape |-> ToString(Len(hist[ym].embedding)) \o " dimensions"]],
         summary |-> [total_records |-> Cardinality(DOMAIN hist),
                      date_range |-> YearMonthString(SetMin(DOMAIN hist)) \o " to "
                                     \o YearMonthString(SetMax(DOMAIN hist)),
                      embedding_dimension |-> IF embs # <<>> THEN Len(embs[1]) ELSE 0]]

\* the records the collections of the table builder are made of: an undated one with notes,
\* and dated ones of three days in two year-months, without notes, with notes, with blank notes
HistoricalRecords ==
    {Record(None, "Fed lawn\n  watered in", <<NitrogenBlend10>>),
     Record(20230310, "", <<>>),
     Record(20230310, "Fed lawn\n  watered in", <<NitrogenBlend10>>),
     Record(20240305, "", <<>>),
     Record(20240305, "Fed lawn\n  watered in", <<NitrogenBlend10>>),
     Record(20240305, " ", <<WeedStop, TalstarIron, WeedStop>>),
     Record(20240320, "Fed lawn\n  watered in", <<NitrogenBlend10>>),
     Record(20240320, " ", <<WeedStop, TalstarIron, WeedStop>>)}

HistInit ==
    /\ records \in SeqsUpTo(HistoricalRecords, MaxRecs)
    /\ embeddings \in {[k \in 1..n |-> Vec(k)] : n \in 0..MaxEmb}
    /\ record_idx = 1
    /\ historical = <<>>
    /\ embedding_idx = 0
    /\ full_data = <<>>
    /\ pc = "hist_loop"
    /\ err = "none"
    /\ IdleParse /\ IdleForecast /\ IdleCategory /\ IdleSearch

\* lines 123-124: a record without a date is passed over
HistSkipUndated ==
    /\ pc = "hist_loop"
    /\ record_idx <= Len(records)
    /\ NoDate(records[record_idx])
    /\ record_idx' = record_idx + 1
    /\ UNCHANGED <<pc, err, records, histVars>>
    /\ UNCHANGED <<parseVars, fcVars, catVars, searchVars>>

\* mutant: the cursor moves on for every record with notes, first of its year-month or not
HistStep_EveryRecordTakes(hist, idx, record, embs) ==
    LET month_str == YearMonthOf(record.date)
        first == month_str \notin DOMAIN hist
        month == IF first THEN NewMonth(record, idx, embs) ELSE hist[month_str]
    IN  [historical |-> [ym \in DOMAIN hist \cup {month_str} |->
                            IF ym = month_str THEN CountProducts(month, record.products)
                            ELSE hist[ym]],
         embedding_idx |-> IF TakesEmbedding(record, idx, embs) THEN idx + 1 ELSE idx]

\* lines 126-166: one dated record, from the row data hist and the cursor idx
HistStep(hist, idx, record, embs) ==
    LET month_str == YearMonthOf(record.date)
        first == month_str \notin DOMAIN hist
        month == IF first THEN NewMonth(record, idx, embs) ELSE hist[month_str]
    IN  [historical |-> [ym \in DOMAIN hist \cup {month_str} |->
                            IF ym = month_str THEN CountProducts(month, record.products)
                            ELSE hist[ym]],
         embedding_idx |-> IF first /\ TakesEmbedding(record, idx, embs) THEN idx + 1 ELSE idx]

\* lines 126-166 for the first record of a year-month: the row data is created, with the
\* next unused vector when the record has notes, and the products are counted
HistFirstOfMonth ==
    /\ pc = "hist_loop"
    /\ record_idx <= Len(records)
    /\ ~NoDate(records[record_idx])
    /\ YearMonthOf(records[record_idx].date) \notin DOMAIN historical
    /\ LET step == HistStep(historical, embedding_idx, records[record_idx], embeddings)
       IN  /\ historical' = step.historical
           /\ embedding_idx' = step.embedding_idx
    /\ record_idx' = record_idx + 1
    /\ UNCHANGED <<pc, err, records, embeddings, full_data>>
    /\ UNCHANGED <<parseVars, fcVars, catVars, searchVars>>

\* lines 126-166 for a later record of a year-month: only the products are counted
HistLaterOfMonth ==
    /\ pc = "hist_loop"
    /\ record_idx <= Len(records)
    /\ ~NoDate(records[record_idx])
    /\ YearMonthOf(records[record_idx].date) \in DOMAIN historical
    /\ LET step == HistStep(historical, embedding_idx, records[record_idx], embeddings)
       IN  /\ historical' = step.historical
           /\ embedding_idx' = step.embedding_idx
    /\ record_idx' = record_idx + 1
    /\ UNCHANGED <<pc, err, records, embeddings, full_data>>
    /\ UNCHANGED <<parseVars, fcVars, catVars, searchVars>>

\* line 214: min() of no key raises ValueError when no record has a date
HistRaiseEmpty ==
    /\ pc = "hist_loop"
    /\ record_idx > Len(records)
    /\ DOMAIN historical = {}
    /\ pc' = "hist_raised"
    /\ err' = "ValueError"
    /\ UNCHANGED <<recVars, histVars>>
    /\ UNCHANGED <<parseVars, fcVars, catVars, searchVars>>

\* lines 168-219: the table is built and returned
HistReturn ==
    /\ pc = "hist_loop"
    /\ record_idx > Len(records)
    /\ DOMAIN historical # {}
    /\ full_data' = BuildFullData(historical, embeddings)
    /\ pc' = "hist_done"
    /\ UNCHANGED <<err, recVars, embeddings, historical, embedding_idx>>
    /\ UNCHANGED <<parseVars, fcVars, catVars, searchVars>>

HistNext ==
    \/ HistSkipUndated
    \/ HistFirstOfMonth
    \/ HistLaterOfMonth
    \/ HistRaiseEmpty
    \/ HistReturn

SpecHist == HistInit /\ [][HistNext]_vars

RECURSIVE HistLoopOf(_, _, _, _)
\* lines 122-166: the loop over the list recs, from the row data hist and the cursor idx
HistLoopOf(hist, idx, recs, embs) ==
    IF recs = <<>> THEN [historical |-> hist, embedding_idx |-> idx]
    ELSE IF NoDate(Head(recs)) THEN HistLoopOf(hist, idx, Tail(recs), embs)
    ELSE LET step == HistStep(hist, idx, Head(recs), embs)
         IN  HistLoopOf(step.historical, step.embedding_idx, Tail(recs), embs)

\* generate_historical_table(recs, embs) as a function of its arguments, for a list with a
\* dated record (it raises for one without)
HistoricalTableOf(recs, embs) == BuildFullData(HistLoopOf(<<>>, 0, recs, embs).historical, embs)

\* main, lines 56-57: one vector for each record whose notes are not blank
MainEmbeddings(recs) ==
    [k \in 1..Len(SelectSeq(recs, LAMBDA r : Strip(r.notes) # "")) |-> Vec(k)]

(***************************************************************************)
(* ProductSearcher (src/MCP/server.py)                                     *)
(***************************************************************************)
\* the search_product calls that can be in progress on the instance at the same time
MaxCalls == 3

\* the requests the model lets go out to the API
MaxSent == 62

\* line 247: self.max_requests_per_minute
max_requests_per_minute == 60

\* the positions of a call: not running yet, suspended at "await self.client.post(...)",
\* and left by a return, by the rate-limit error of line 262 or by another exception
Ready == "ready"
Awaiting == "awaiting"
Returned == "returned"
RateLimited == "Rate limit exceeded - too many requests"
Raised == "raised"

\* the status codes of a response that lines 290-295 answer with an exception
ErrorStatus == {401, 429, 500}

\* lines 243-247: the instance after construction, no call running
SearchInit ==
    /\ request_count = 0
    /\ api_requests = 0
    /\ calls = [c \in 1..MaxCalls |-> Ready]
    /\ pc = "search"
    /\ err = "none"
    /\ IdleParse /\ IdleRecords /\ IdleForecast /\ IdleHistorical /\ IdleCategory

\* lines 261-262: a call that finds the count at the limit raises, nothing is posted
SearchRateLimited(c) ==
    /\ calls[c] # Awaiting
    /\ request_count >= max_requests_per_minute
    /\ calls' = [calls EXCEPT ![c] = RateLimited]
    /\ UNCHANGED <<pc, err, request_count, api_requests>>
    /\ UNCHANGED <<parseVars, recVars, fcVars, histVars, catVars>>

\* lines 261-285: a call that finds the count below the limit posts the request and is
\* suspended until the answer is there
SearchPost(c) ==
    /\ calls[c] # Awaiting
    /\ request_count < max_requests_per_minute
    /\ api_requests + Cardinality({d \in 1..MaxCalls : calls[d] = Awaiting}) < MaxSent
    /\ calls' = [calls EXCEPT ![c] = Awaiting]
    /\ UNCHANGED <<pc, err, request_count, api_requests>>
    /\ UNCHANGED <<parseVars, recVars, fcVars, histVars, catVars>>

\* lines 287-302: the answer has status 200 and holds a dict; the count goes up and the
\* formatted results are returned
SearchResponseOk(c) ==
    /\ calls[c] = Awaiting
    /\ request_count' = request_count + 1
    /\ api_requests' = api_requests + 1
    /\ calls' = [calls EXCEPT ![c] = Returned]
    /\ UNCHANGED <<pc, err>>
    /\ UNCHANGED <<parseVars, recVars, fcVars, histVars, catVars>>

\* lines 287-300: the answer has another status, or status 200 and no dict; the count
\* goes up and the call raises
SearchResponseError(c) ==
    /\ calls[c] = Awaiting
    /\ \E status \in ErrorStatus \cup {200} :
          /\ request_count' = request_count + 1
          /\ api_requests' = api_requests + 1
          /\ calls' = [calls EXCEPT ![c] = Raised]
    /\ UNCHANGED <<pc, err>>
    /\ UNCHANGED <<parseVars, recVars, fcVars, histVars, catVars>>

\* lines 304-305: the request went out and no answer came in time; the call raises and
\* line 287 is not reached
SearchTimeout(c) ==
    /\ calls[c] = Awaiting
    /\ api_requests' = api_requests + 1
    /\ calls' = [calls EXCEPT ![c] = Raised]
    /\ UNCHANGED <<pc, err, request_count>>
    /\ UNCHANGED <<parseVars, recVars, fcVars, histVars, catVars>>

\* lines 306-307: the request could not be sent; the call raises and line 287 is not
\* reached
SearchRequestError(c) ==
    /\ calls[c] = Awaiting
    /\ calls' = [calls EXCEPT ![c] = Raised]
    /\ UNCHANGED <<pc, err, request_count, api_requests>>
    /\ UNCHANGED <<parseVars, recVars, fcVars, histVars, catVars>>

SearchNext ==
    \E c \in 1..MaxCalls :
        \/ SearchRateLimited(c)
        \/ SearchPost(c)
        \/ SearchResponseOk(c)
        \/ SearchResponseError(c)
        \/ SearchTimeout(c)
        \/ SearchRequestError(c)

SpecSearch == SearchInit /\ [][SearchNext]_vars

(***************************************************************************)
(* parse_receipt: properties                                               *)
(***************************************************************************)
\* C1: in the record parse_receipt returns, volume is the sum of applied_amt over exactly
\* the products of its products list; the running total equals that sum after every
\* iteration (a skipped occurrence adds nothing) and volume is set nowhere but at the return.
C1_VolumeIsSumOfProducts ==
    /\ pc = "parse_loop" => total_volume = SumAmt(parsed.products) /\ parsed.volume = 0
    /\ pc = "parse_done" => parsed.volume = SumAmt(parsed.products)

\* a record is returned that holds a product and for which an occurrence was skipped
C1_Witness ==
    /\ pc = "parse_done"
    /\ Len(parsed.products) >= 1
    /\ Len(parsed.products) < Len(applied_matches)
    /\ parsed.volume > 0

\* C2: parse_receipt never raises: every text ends in one returned record, in which each
\* field whose pattern is not in the text holds its default.
C2_ParseNeverRaises ==
    /\ pc # "parse_raised"
    /\ pc = "parse_done" =>
        /\ FindCI(pdf.text, NOTES_HEADER, 1) = 0 => parsed.notes = ""
        /\ FindCI(pdf.text, "sqft", 1) = 0 => parsed.property_sqft = 0
        /\ FindCI(pdf.text, "METHOD:", 1) = 0 => parsed.method = ""
        /\ FindCI(pdf.text, "AREAS:", 1) = 0 => parsed.areas = ""
        /\ Find(pdf.text, "/", 1) = 0 => parsed.date = None
        /\ FindCI(pdf.text, APPLIED_AMT, 1) = 0 => parsed.products = <<>> /\ parsed.volume = 0

\* an iteration of the product loop emits a product
Emits == pc = "parse_loop" /\ Len(parsed'.products) = Len(parsed.products) + 1
\* the unit of the product just emitted, and the unit token it was read from
EmittedUnit == parsed'.products[Len(parsed'.products)].unit
WrittenUnit == applied_matches[i].g2

\* the unit the amended claim C10 expects for a unit token as written
ExpectedUnit(u) ==
    CASE Lower(u) \in {"floz", "oz"} -> "OZ"
      [] Lower(u) = "gal" -> "GAL"
      [] Lower(u) = "lb" -> "LB"
      [] OTHER -> "?"

FieldsOf(rec) ==
    [notes |-> rec.notes, property_sqft |-> rec.property_sqft, method |-> rec.method,
     areas |-> rec.areas, date |-> rec.date]

\* the anchor pattern matches nowhere in the text
NoAnchor == \A p \in 1..Len(pdf.text) : ~AppliedAt(pdf.text, p)

\* C11: for a text in which the APPLIED AMT anchor pattern matches nowhere parse_receipt
\* returns (it does not raise) a record with products == [] and volume == 0.0 whose notes,
\* property_sqft, method, areas and date are what the field patterns give for the text; in
\* every run these five fields are read from the text alone before the product loop starts
\* and no iteration of the loop, nor the return, changes them.
C11_NoAnchorNoProducts ==
    /\ [](/\ pc = "parse_raised" => ~NoAnchor
          /\ pc = "parse_done" /\ NoAnchor => parsed.products = <<>> /\ parsed.volume = 0)
    /\ [](pc = "parse_loop" /\ i = 1 =>
            FieldsOf(parsed) = [notes |-> NotesOf(pdf.text),
                                property_sqft |-> SqftOf(pdf.text),
                                method |-> LabelLineOf(pdf.text, "METHOD:"),
                                areas |-> LabelLineOf(pdf.text, "AREAS:"),
                                date |-> DateOf(pdf.text)])
    /\ [][pc = "parse_loop" => FieldsOf(parsed') = FieldsOf(parsed)]_vars

\* a text with notes, method, areas, sqft and date but no APPLIED AMT occurrence has been
\* parsed: the record holds all of them and no product
C11_Witness ==
    /\ pc = "parse_done"
    /\ NoAnchor
    /\ parsed.products = <<>> /\ parsed.volume = 0
    /\ parsed.notes = "Fed lawn"
    /\ parsed.method = "Spray" /\ parsed.areas = "Front" /\ parsed.property_sqft = 4500
    /\ parsed.date = 20240501

\* the k-th occurrence reads "2.5 FLOZ" and a "RATE:" label stands behind it
Is25Floz(k) == applied_matches[k].g1 = "2.5" /\ Upper(applied_matches[k].g2) = "FLOZ"
LaterRate(k) == Find(pdf.text, "RATE:", applied_matches[k].end) # 0

\* the text a product name is looked for in: from the end of the previous occurrence (the
\* start of the text for the first) up to the last "RATE:" before the k-th occurrence;
\* "" when no "RATE:" stands before the occurrence
NameSpan(k) ==
    LET rate == RFind(Sub(pdf.text, 1, applied_matches[k].start - 1), "RATE:")
        from == IF k = 1 THEN 1 ELSE applied_matches[k - 1].end
    IN  IF rate = 0 THEN "" ELSE Sub(pdf.text, from, rate - 1)

\* a product of 2.5 OZ whose name stands in the name span of the k-th occurrence
Has25Oz(k) ==
    \E j \in 1..Len(parsed.products) :
        /\ parsed.products[j].unit = "OZ"
        /\ parsed.products[j].applied_amt = Amt(2, 5)
        /\ parsed.products[j].name # ""
        /\ Find(NameSpan(k), parsed.products[j].name, 1) # 0

IsLastNonBlankLine(span, name) ==
    /\ name # ""
    /\ \E a, b \in 1..Len(span) :
        /\ Sub(span, a, b) = name
        /\ ~IsSpace(Ch(span, a)) /\ ~IsSpace(Ch(span, b))
        /\ \A q \in a..b : Ch(span, q) # "\n"
        /\ \A q \in (b + 1)..Len(span) : IsSpace(Ch(span, q))
        /\ \A q \in 1..(a - 1) : IsSpace(Ch(span, q)) \/ \E r \in q..(a - 1) : Ch(span, r) = "\n"

\* C15: the iteration for the i-th occurrence emits a product named by the last non-blank
\* line of the text between the end of the previous occurrence (skipped or not; the start
\* of the text for the first) and the last "RATE:" label before the occurrence, appended
\* behind the products emitted so far; it emits nothing and adds nothing to the total when
\* no "RATE:" label precedes the occurrence (or that text has no non-blank line); every
\* emitted product has a non-empty name.
C15_NameFromOwnSpan ==
    /\ [][pc = "parse_loop" /\ i <= Len(applied_matches) /\ pc' = "parse_loop" =>
            LET n == Len(parsed.products)
            IN  IF Strip(NameSpan(i)) = ""
                THEN parsed' = parsed /\ total_volume' = total_volume
                ELSE /\ Len(parsed'.products) = n + 1
                     /\ SubSeq(parsed'.products, 1, n) = parsed.products
                     /\ IsLastNonBlankLine(NameSpan(i), parsed'.products[n + 1].name)]_vars
    /\ [](pc \in {"parse_loop", "parse_done"} =>
            \A j \in 1..Len(parsed.products) : parsed.products[j].name # "")

\* two products have been emitted in the order of their occurrences, the name of the second
\* read from the text behind the first occurrence
C15_Witness ==
    /\ pc = "parse_done"
    /\ Len(applied_matches) = 2
    /\ Len(parsed.products) = 2
    /\ parsed.products[1].name = "Iron Plus" /\ parsed.products[1].applied_amt = Amt(10, 0)
    /\ parsed.products[2].name = "Weed Stop" /\ parsed.products[2].applied_amt = Amt(2, 5)
    /\ NameSpan(2) = "Weed Stop\n"

\* the boundary labels of the targets span
BoundaryLabels == {"RATE:", "PRODUCTS:", "METHOD:", NOTES_HEADER, APPLIED_AMT}

\* the text from the end of the k-th occurrence up to the next boundary label, or to the
\* end of the document when none follows
OwnSpan(k) ==
    LET from == applied_matches[k].end
        B == {p \in from..Len(pdf.text) : \E lit \in BoundaryLabels : AtCI(pdf.text, p, lit)}
    IN  Sub(pdf.text, from, IF B = {} THEN Len(pdf.text) ELSE SetMin(B) - 1)

\* the targets of the product just emitted
EmittedTargets == parsed'.products[Len(parsed'.products)].targets

\* C16: the targets of an emitted product are read from its own span only: the first line,
\* cut to 100 characters, of the targets text standing in the span, and the empty string
\* when the span holds no targets text.
C16_TargetsFromOwnSpan ==
    [][Emits =>
        /\ EmittedTargets = TargetsOf(OwnSpan(i))
        /\ FindCI(OwnSpan(i), "TARGETS:", 1) = 0 => EmittedTargets = ""]_vars

\* the positions of the text where an M/D/YYYY-shaped token starts
TokenStarts == {p \in 1..Len(pdf.text) : DateShape(pdf.text, p) # {}}

\* the three numbers <<month, day, year>> of the token starting at p
TokenFields(p) ==
    LET s1 == Find(pdf.text, "/", p)
        s2 == Find(pdf.text, "/", s1 + 1)
    IN  <<DigitsVal(Sub(pdf.text, p, s1 - 1)),
          DigitsVal(Sub(pdf.text, s1 + 1, s2 - 1)),
          DigitsVal(Sub(pdf.text, s2 + 1, s2 + 4))>>

\* the days of the months of a common year
MonthDays == <<31, 28, 31, 30, 31, 30, 31, 31, 30, 31, 30, 31>>

\* month m, day d, year y name a day of the calendar
IsCalendarDate(m, d, y) ==
    /\ y >= 1 /\ m \in 1..12 /\ d >= 1
    /\ d <= MonthDays[m] + (IF m = 2 /\ IsLeap(y) THEN 1 ELSE 0)

\* C17: the date of the record comes from the first M/D/YYYY-shaped token of the text
\* only: it is that token's date when the token is a valid month/day/year, and it is absent
\* when the text has no such token or when the first token is no calendar date, whatever
\* tokens follow; no error is raised for it.
C17_DateFromFirstToken ==
    pc \in {"parse_loop", "parse_done", "parse_raised"} =>
        IF TokenStarts = {} THEN parsed.date = None
        ELSE LET f == TokenFields(SetMin(TokenStarts))
             IN  IF IsCalendarDate(f[1], f[2], f[3])
                 THEN parsed.date = f[3] * 10000 + f[1] * 100 + f[2]
                 ELSE parsed.date = None

\* a text whose first token is 2/30/2024 and whose second is 5/1/2024 has been parsed: the
\* record has no date
C17_Witness ==
    /\ pc = "parse_done"
    /\ Cardinality(TokenStarts) >= 2
    /\ TokenFields(SetMin(TokenStarts)) = <<2, 30, 2024>>
    /\ TokenFields(SetMax(TokenStarts)) = <<5, 1, 2024>>
    /\ parsed.date = None

(***************************************************************************)
(* forecast_next_year: properties                                          *)
(***************************************************************************)
\* the dated records of calendar month m
InMonth(m) == {k \in 1..Len(records) : records[k].date # None /\ MonthOf(records[k].date) = m}

RECURSIVE AmountsIn(_, _)
\* the amounts of the entries named n in a products list
AmountsIn(products, n) ==
    IF products = <<>> THEN <<>>
    ELSE (IF Head(products).name = n THEN <<Head(products).applied_amt>> ELSE <<>>)
         \o AmountsIn(Tail(products), n)

RECURSIVE AmountsOf(_, _, _)
\* the amounts recorded for product n in the dated records of month m, among the first k
AmountsOf(k, m, n) ==
    IF k = 0 THEN <<>>
    ELSE AmountsOf(k - 1, m, n) \o (IF k \in InMonth(m) THEN AmountsIn(records[k].products, n) ELSE <<>>)

ProductNames == {"Nitrogen Blend", "Weed Stop", "Talstar Iron"}
MonthKeys == {"Month_1", "Month_2", "Month_3", "Month_4", "Month_5", "Month_6",
              "Month_7", "Month_8", "Month_9", "Month_10", "Month_11", "Month_12"}
Slot(m) == forecast[MonthKey(m)]

\* C3: forecast_next_year returns, for every record collection, a mapping with exactly the
\* keys Month_1..Month_12 in which a month without dated record has no product and notes "".
C3_AlwaysTwelveSlots ==
    /\ pc # "forecast_raised"
    /\ pc = "forecast_done" =>
        /\ DOMAIN forecast = MonthKeys
        /\ \A m \in 1..12 : InMonth(m) = {} => Slot(m) = [products |-> <<>>, notes |-> ""]

\* C4: in the returned forecast the volume of product n in the slot of month m is the mean,
\* rounded to 4 decimals, of all amounts recorded for n in dated records of calendar month m
\* (all years, every occurrence), and n is in the slot iff there is such an occurrence.
C4_VolumeIsMonthlyMean ==
    pc = "forecast_done" =>
        \A m \in 1..12 : \A n \in ProductNames :
            LET amounts == AmountsOf(Len(records), m, n)
                diff == Slot(m).products[n].volume * Len(amounts) - SumSeq(amounts)
            IN  /\ n \in DOMAIN Slot(m).products <=> amounts # <<>>
                /\ amounts # <<>> => 2 * diff <= Len(amounts) /\ 2 * diff >= -Len(amounts)

\* two March records of different years applying Nitrogen Blend at 10.0 and 14.0 give 12.0
C4_Witness ==
    /\ pc = "forecast_done"
    /\ Len(records) = 2
    /\ records[1].date = 20240305
    /\ AmountsIn(records[1].products, "Nitrogen Blend") = <<Amt(14, 0)>>
    /\ records[2].date = 20230310
    /\ AmountsIn(records[2].products, "Nitrogen Blend") = <<Amt(10, 0)>>
    /\ Slot(3).products["Nitrogen Blend"].volume = Amt(12, 0)

\* the dated records of month m that carry notes
Noted(m) == {k \in InMonth(m) : records[k].notes # ""}

\* C5: in the returned forecast the note of a month is the notes text of a record with the
\* latest date among the dated records of that calendar month (all years) whose notes are
\* not empty, and the empty string when the month has no such record.
C5_NoteIsLatestNonEmpty ==
    pc = "forecast_done" =>
        \A m \in 1..12 :
            IF Noted(m) = {} THEN Slot(m).notes = ""
            ELSE \E k \in Noted(m) :
                    /\ \A j \in Noted(m) : records[j].date <= records[k].date
                    /\ Slot(m).notes = records[k].notes

\* a month whose most recent record has no notes, an older one with notes and a still older
\* one with other notes: the forecast note is that of the middle record
C5_Witness ==
    /\ pc = "forecast_done"
    /\ \E a, b, c \in InMonth(3) :
        /\ records[a].date > records[b].date /\ records[b].date > records[c].date
        /\ records[a].notes = ""
        /\ records[b].notes # "" /\ records[c].notes # "" /\ records[b].notes # records[c].notes
        /\ Slot(3).notes = records[b].notes

\* C13: the forecast returned for a record list is the forecast of every permutation of
\* the list, records of equal date included.
C13_OrderIndependent ==
    pc = "forecast_done" => \A p \in Reorderings(records) : ForecastOf(p) = forecast

\* the records that have a date, in the order of the list
Dated(recs) == SelectSeq(recs, LAMBDA r : r.date # None)

\* C14: forecast_next_year does not raise on a collection holding undated records, and the
\* forecast it returns is the forecast of the collection without its undated records.
C14_UndatedExcluded ==
    /\ pc # "forecast_raised"
    /\ pc = "forecast_done" => forecast = ForecastOf(Dated(records))

\* the dated records of month m that hold product n
Holding(m, n) == {k \in InMonth(m) : AmountsIn(records[k].products, n) # <<>>}

\* the first entry named n of a products list
FirstNamed(products, n) ==
    products[SetMin({j \in 1..Len(products) : products[j].name = n})]

\* C18: in the returned forecast the unit and targets of product n in the slot of month m
\* are those of the first occurrence of n in a most recent record of calendar month m that
\* holds n; while the records are grouped an occurrence of a product already seen in its
\* month adds its amount and leaves unit and targets as they are.
C18_UnitFromMostRecent ==
    /\ [](pc = "forecast_done" =>
            \A m \in 1..12 : \A n \in DOMAIN Slot(m).products :
                \E k \in Holding(m, n) :
                    /\ \A j \in Holding(m, n) : records[j].date <= records[k].date
                    /\ Slot(m).products[n].unit = FirstNamed(records[k].products, n).unit
                    /\ Slot(m).products[n].targets = FirstNamed(records[k].products, n).targets)
    /\ [][pc = "forecast_loop" /\ pc' = "forecast_loop" =>
            \A mk \in DOMAIN monthly_data : \A n \in DOMAIN monthly_data[mk].products :
                LET old == monthly_data[mk].products[n]
                    new == monthly_data'[mk].products[n]
                IN  /\ new.unit = old.unit /\ new.targets = old.targets
                    /\ Len(new.volumes) >= Len(old.volumes)
                    /\ SubSeq(new.volumes, 1, Len(old.volumes)) = old.volumes]_vars

\* Nitrogen Blend applied in LB without targets in March 2024 and in OZ against "Growth" in
\* March 2023: the March slot averages both amounts and has the unit and targets of 2024
C18_Witness ==
    /\ pc = "forecast_done"
    /\ Len(records) = 2
    /\ records[1].date = 20240305 /\ records[2].date = 20230310
    /\ records[1].products = <<NitrogenBlend14, WeedStop>>
    /\ records[2].products = <<NitrogenBlend10>>
    /\ Slot(3).products["Nitrogen Blend"] = [volume |-> Amt(12, 0), unit |-> "LB", targets |-> ""]

\* the step in which forecast_next_year sorts the list it was given
SortStep == pc = "forecast_sort" /\ pc' = "forecast_loop"

\* C22: forecast_next_year leaves the caller's list as it was, the same records in the same
\* order, so the historical table built from the list and the embeddings of main after the
\* forecast is the table built from them before it.
C22_ForecastLeavesRecords ==
    [][SortStep =>
        /\ records' = records
        /\ Dated(records) # <<>> =>
              HistoricalTableOf(records', MainEmbeddings(records))
                  = HistoricalTableOf(records, MainEmbeddings(records))]_vars

(***************************************************************************)
(* categorize_product: properties                                          *)
(***************************************************************************)
\* the categories in their priority order, with the keyword list of each
CategoryOrder == <<"Fertilizer", "Weed Control", "Iron/Micronutrient", "Sulfur",
                   "Insecticide", "Surfactant">>
KeywordsOf(c) ==
    CASE c = "Fertilizer" -> fertilizer_keywords
      [] c = "Weed Control" -> weed_keywords
      [] c = "Iron/Micronutrient" -> iron_keywords
      [] c = "Sulfur" -> sulfur_keywords
      [] c = "Insecticide" -> insect_keywords
      [] c = "Surfactant" -> surfactant_keywords

\* the name holds, in any letter case, a keyword of category c
Matches(name, c) == \E x \in KeywordsOf(c) : FindCI(name, x, 1) # 0

\* C6: the category returned is the first one, in the order Fertilizer, Weed Control,
\* Iron/Micronutrient, Sulfur, Insecticide, Surfactant, of which the name holds a keyword
\* in any letter case, and Other when there is none; a name holding a Fertilizer and an
\* Insecticide keyword is a Fertilizer.
C6_FirstMatchingCategory ==
    pc = "cat_done" =>
        LET M == {k \in 1..Len(CategoryOrder) : Matches(prod_name, CategoryOrder[k])}
        IN  /\ category \in {CategoryOrder[k] : k \in 1..Len(CategoryOrder)} \cup {"Other"}
            /\ M = {} => category = "Other"
            /\ M # {} => category = CategoryOrder[SetMin(M)]
            /\ Matches(prod_name, "Fertilizer") /\ Matches(prod_name, "Insecticide")
                  => category = "Fertilizer"

\* a name holding a Fertilizer keyword and an Insecticide keyword has been classified
C6_Witness ==
    /\ pc = "cat_done"
    /\ prod_name = "Talstar IRON"
    /\ category = "Fertilizer"

\* C23: categorize_product returns Iron/Micronutrient for no name: a name holding an
\* Iron/Micronutrient keyword ("iron", "spt iron") in any letter case holds the Fertilizer
\* keyword "iron" and is classified Fertilizer, whatever else it holds; the table built
\* from a dated record, "Talstar Iron" among its products, has no Iron/Micronutrient count.
C23_IronBranchNeverReached ==
    /\ \A x \in iron_keywords : \E y \in fertilizer_keywords : Find(x, y, 1) # 0
    /\ \A r \in HistoricalRecords : ~NoDate(r) =>
           LET t == HistoricalTableOf(<<r>>, <<>>)
           IN  /\ \A k \in 1..Len(t.product_categories) :
                      t.product_categories[k] # "Iron/Micronutrient"
               /\ \A k \in 1..Len(t.table) :
                      "Iron/Micronutrient" \notin DOMAIN t.table[k].Categories
    /\ pc = "cat_done" =>
        /\ category # "Iron/Micronutrient"
        /\ Matches(prod_name, "Iron/Micronutrient") => category = "Fertilizer"

\* a name whose only keyword is "iron" has been classified: it is a Fertilizer
C23_Witness ==
    /\ pc = "cat_done"
    /\ prod_name = "IRON Plus"
    /\ Matches(prod_name, "Iron/Micronutrient")
    /\ category = "Fertilizer"

(***************************************************************************)
(* generate_historical_table: properties                                   *)
(***************************************************************************)
\* the year-months of the dated records
YearMonths == {YearMonthOf(records[k].date) : k \in {j \in 1..Len(records) : records[j].date # None}}

\* C7: for every record collection generate_historical_table returns a table with one row
\* per distinct year-month of the dated records, the Month keys strictly ascending.
C7_RowPerYearMonth ==
    /\ pc # "hist_raised"
    /\ pc = "hist_done" =>
        /\ Len(full_data.table) = Cardinality(YearMonths)
        /\ \A k \in 1..(Len(full_data.table) - 1) :
              full_data.table[k].Month < full_data.table[k + 1].Month

\* the records whose notes are not blank
NoteBearing == {k \in 1..Len(records) : Strip(records[k].notes) # ""}

RECURSIVE HistFold(_, _)
\* the row data after the first k records, and the cursor, with the embedding list embs
HistFold(k, embs) ==
    IF k = 0 THEN [historical |-> <<>>, embedding_idx |-> 0]
    ELSE LET before == HistFold(k - 1, embs)
         IN  IF NoDate(records[k]) THEN before
             ELSE HistStep(before.historical, before.embedding_idx, records[k], embs)

\* one vector for each note-bearing record
FullList == [k \in 1..Cardinality(NoteBearing) |-> Vec(k)]

\* C8: with an embedding list shorter than the number of note-bearing records the builder
\* does not fail; the vectors are given out until the list is exhausted, a row without one
\* has summary N/A, and but for the summaries the table is the one a full list gives.
C8_ShortListDoesNotFail ==
    Len(embeddings) < Cardinality(NoteBearing) =>
        /\ pc # "hist_raised"
        /\ pc = "hist_done" =>
            LET full == BuildFullData(HistFold(Len(records), FullList).historical, FullList).table
                got == full_data.table
            IN  /\ embedding_idx <= Len(embeddings)
                /\ {historical[ym].embedding : ym \in DOMAIN historical} \ {NoEmbedding}
                      = {embeddings[k] : k \in 1..embedding_idx}
                /\ Len(got) = Len(full)
                /\ \A k \in 1..Len(got) :
                      /\ [got[k] EXCEPT !.Embedding_Summary = ""]
                            = [full[k] EXCEPT !.Embedding_Summary = ""]
                      /\ historical[got[k].Month].embedding = NoEmbedding
                            => got[k].Embedding_Summary = "N/A"

\* the iteration of the loop over a dated or undated record with blank notes
BlankStep ==
    /\ pc = "hist_loop"
    /\ record_idx <= Len(records)
    /\ Strip(records[record_idx].notes) = ""
    /\ record_idx' = record_idx + 1

\* C9: a record with empty or whitespace-only notes never consumes a vector: processing it
\* leaves the embedding cursor unchanged and a row created from it has no embedding.
C9_BlankNotesTakeNoEmbedding ==
    [][BlankStep =>
        /\ embedding_idx' = embedding_idx
        /\ \A ym \in DOMAIN historical' \ DOMAIN historical :
              /\ historical'[ym].embedding = NoEmbedding
              /\ historical'[ym].embedding_summary = "N/A"]_vars

\* a row has been created from a record with whitespace-only notes while an unused vector
\* was available, and it has no embedding
C9_Witness ==
    /\ pc = "hist_loop"
    /\ record_idx = 2
    /\ records[1].date = 20240305
    /\ records[1].notes = " "
    /\ Len(embeddings) = MaxEmb
    /\ embedding_idx = 0
    /\ DOMAIN historical = {202403}
    /\ historical[202403].embedding = NoEmbedding

RECURSIVE OccurrencesOf(_, _)
\* the product occurrences of the dated records of year-month ym among the first k records
OccurrencesOf(k, ym) ==
    IF k = 0 THEN <<>>
    ELSE OccurrencesOf(k - 1, ym)
         \o (IF records[k].date # None /\ YearMonthOf(records[k].date) = ym
             THEN records[k].products ELSE <<>>)

RECURSIVE SumOver(_, _)
\* the sum of f[x] over the elements x of S
SumOver(f, S) ==
    IF S = {} THEN 0
    ELSE LET x == CHOOSE y \in S : TRUE IN f[x] + SumOver(f, S \ {x})

\* the sum of the per-product volumes of year-month ym
ProductVolumes(ym) ==
    SumOver([n \in DOMAIN historical[ym].products |-> historical[ym].products[n].volume],
            DOMAIN historical[ym].products)

\* one hundredth, the step of round(x, 2)
Hundredth == AmtScale \div 100

\* C19 (amended): for every row of the table, the volume of each product is the sum of the
\* amounts of all its occurrences in the records of the year-month, the running total of the
\* year-month is the sum of the per-product volumes, the Total_Volume of the row is that
\* sum rounded to 2 decimals, and the category counts of the row add up to the number of
\* product occurrences of the year-month, each counted under the category of its name.
C19_SumsAndCounts ==
    pc = "hist_done" =>
        \A r \in 1..Len(full_data.table) :
            LET row == full_data.table[r]
                ym == row.Month
                occ == OccurrencesOf(Len(records), ym)
            IN  /\ DOMAIN historical[ym].products = {occ[j].name : j \in 1..Len(occ)}
                /\ \A n \in DOMAIN historical[ym].products :
                      historical[ym].products[n].volume = SumSeq(AmountsIn(occ, n))
                /\ historical[ym].volume_total = ProductVolumes(ym)
                /\ row.Total_Volume % Hundredth = 0
                /\ 2 * (row.Total_Volume - ProductVolumes(ym)) <= Hundredth
                /\ 2 * (ProductVolumes(ym) - row.Total_Volume) <= Hundredth
                /\ \A c \in DOMAIN row.Categories :
                      row.Categories[c] =
                          Cardinality({j \in 1..Len(occ) : categorize_product(occ[j].name) = c})
                /\ SumOver(row.Categories, DOMAIN row.Categories) = Len(occ)

\* a year-month with two records applying Weed Stop twice each and Talstar Iron once each:
\* Weed Stop has volume 10.0, the per-product volumes add up to 12.25 and the row counts
\* four Weed Control and two Fertilizer occurrences
C19_Witness ==
    /\ pc = "hist_done"
    /\ Len(records) = 2
    /\ records[1].date = 20240305 /\ records[2].date = 20240320
    /\ records[1].products = <<WeedStop, TalstarIron, WeedStop>>
    /\ records[2].products = <<WeedStop, TalstarIron, WeedStop>>
    /\ historical[202403].products["Weed Stop"].volume = Amt(10, 0)
    /\ full_data.table[1].Total_Volume = Amt(12, 0) + 25 * Hundredth
    /\ full_data.table[1].Categories = [c \in {"Fertilizer", "Weed Control"} |->
                                            IF c = "Fertilizer" THEN 2 ELSE 4]

\* C19 as stated: the total volume of a row equals the sum of the per-product volumes.
C19_TotalIsExactSum ==
    pc = "hist_done" =>
        \A r \in 1..Len(full_data.table) :
            full_data.table[r].Total_Volume = ProductVolumes(full_data.table[r].Month)

\* the iteration of the loop over a dated record whose year-month has a row already
LaterStep ==
    /\ pc = "hist_loop"
    /\ record_idx <= Len(records)
    /\ records[record_idx].date # None
    /\ YearMonthOf(records[record_idx].date) \in DOMAIN historical
    /\ record_idx' = record_idx + 1

\* what a row is given when it is created
Decided(month) ==
    [date |-> month.date, notes |-> month.notes, embedding |-> month.embedding,
     embedding_summary |-> month.embedding_summary]

\* the first record of year-month ym in the order of the list
FirstOf(ym) ==
    records[SetMin({k \in 1..Len(records) :
                       records[k].date # None /\ YearMonthOf(records[k].date) = ym})]

\* C20: the records are taken in the order of the list and the date, notes and embedding of
\* a row are decided by the first record of its year-month: a later record of the
\* year-month leaves them, the embedding cursor and every other row unchanged; hence the
\* cursor never exceeds the number of rows, exactly as many rows hold a vector as the cursor
\* has passed, and no vector is held by two rows.
C20_RowDecidedByFirstRecord ==
    /\ [][LaterStep =>
            /\ embedding_idx' = embedding_idx
            /\ DOMAIN historical' = DOMAIN historical
            /\ \A ym \in DOMAIN historical :
                  /\ Decided(historical'[ym]) = Decided(historical[ym])
                  /\ ym # YearMonthOf(records[record_idx].date) => historical'[ym] = historical[ym]]_vars
    /\ [](pc \in {"hist_loop", "hist_done"} =>
            /\ embedding_idx <= Cardinality(DOMAIN historical)
            /\ embedding_idx <= Len(embeddings)
            /\ Cardinality({ym \in DOMAIN historical : historical[ym].embedding # NoEmbedding})
                  = embedding_idx
            /\ \A a, b \in DOMAIN historical :
                  a # b /\ historical[a].embedding # NoEmbedding
                      => historical[a].embedding # historical[b].embedding
            /\ \A ym \in DOMAIN historical :
                  /\ historical[ym].date = FirstOf(ym).date
                  /\ historical[ym].notes = FirstOf(ym).notes)

\* two records of March 2024, both with notes and two vectors at hand: the row has the date
\* and the vector given at the first record, the cursor stands at 1, and the products of
\* both records are counted
C20_Witness ==
    /\ pc = "hist_loop"
    /\ record_idx = 3
    /\ records[1].date = 20240305 /\ records[2].date = 20240320
    /\ ~BlankNotes(records[1]) /\ ~BlankNotes(records[2])
    /\ Len(embeddings) = 2
    /\ embedding_idx = 1
    /\ historical[202403].date = 20240305
    /\ historical[202403].embedding = Vec(1)
    /\ historical[202403].products["Nitrogen Blend"].volume = Amt(20, 0)

\* the index of the first record of year-month ym in the order of the list
FirstIndex(ym) ==
    SetMin({k \in 1..Len(records) : records[k].date # None /\ YearMonthOf(records[k].date) = ym})

\* the vector of the k-th record in a list holding one vector for each note-bearing record,
\* in the order of the records; none for a record without notes
VectorOf(k) ==
    IF k \in NoteBearing THEN Vec(Cardinality({j \in NoteBearing : j <= k})) ELSE NoEmbedding

\* C21: when the embedding list holds one vector for each note-bearing record, in the order
\* of the records, the embedding of every row is the vector of the record whose notes the
\* row stores (the first record of its year-month), and none when that record has no notes.
C21_RowHoldsVectorOfItsNotes ==
    pc \in {"hist_loop", "hist_done"} /\ embeddings = FullList =>
        \A ym \in DOMAIN historical :
            /\ historical[ym].notes = records[FirstIndex(ym)].notes
            /\ historical[ym].embedding = VectorOf(FirstIndex(ym))

\* the year-months of the dated records
YearMonthsOf(recs) == {YearMonthOf(Dated(recs)[k].date) : k \in 1..Len(Dated(recs))}

\* the categories of the products of the dated records
CategoriesSeen(recs) ==
    UNION {{categorize_product(Dated(recs)[k].products[j].name) :
               j \in 1..Len(Dated(recs)[k].products)} : k \in 1..Len(Dated(recs))}

\* the range, the dimension, the category list and the columns of the rows are as described
RangeDimensionColumns ==
    LET cats == full_data.product_categories
        seen == CategoriesSeen(records)
    IN  /\ full_data.summary.date_range =
               YearMonthString(SetMin(YearMonthsOf(records))) \o " to "
                   \o YearMonthString(SetMax(YearMonthsOf(records)))
        /\ full_data.summary.embedding_dimension =
               (IF embeddings = <<>> THEN 0 ELSE Len(embeddings[1]))
        /\ {cats[k] : k \in 1..Len(cats)} = seen
        /\ \A j, k \in 1..Len(cats) :
               j < k => \E a, b \in 1..Len(SortedCategories) :
                           a < b /\ SortedCategories[a] = cats[j] /\ SortedCategories[b] = cats[k]
        /\ \A r \in 1..Len(full_data.table) :
               /\ DOMAIN full_data.table[r].Categories = seen
               /\ \A c \in seen :
                      c \notin DOMAIN historical[full_data.table[r].Month].product_categories
                          => full_data.table[r].Categories[c] = 0

\* C24: the summary of the returned table reports the number of dated records of the
\* input, the least and the greatest year-month of the rows and the length of the supplied
\* vectors (0 without vectors); the category list is the sorted union of the categories
\* of all rows and every row has a count, 0 when absent, for each category of the list.
C24_SummaryAndColumns ==
    pc = "hist_done" =>
        /\ full_data.summary.total_records = Len(Dated(records))
        /\ RangeDimensionColumns

(***************************************************************************)
(* ProductSearcher: properties                                             *)
(***************************************************************************)
\* a call begins in this step: a position other than the suspended one changes
Begins(c) == calls[c] # Awaiting /\ calls'[c] # calls[c]

\* a call that begins with the count at the limit raises the rate-limit error and
\* nothing goes out to the API
LimitReachedRaises ==
    \A c \in 1..MaxCalls :
        Begins(c) /\ request_count >= max_requests_per_minute =>
            calls'[c] = RateLimited /\ api_requests' = api_requests

\* C25: under every interleaving of the calls on one instance, request_count is never
\* above max_requests_per_minute and at most max_requests_per_minute requests go out
\* to the API; a call that begins with the count at the limit raises the rate-limit
\* error without contacting the API.
C25_NeverOverLimit ==
    /\ [](request_count <= max_requests_per_minute)
    /\ [](api_requests <= max_requests_per_minute)
    /\ [][LimitReachedRaises]_vars

====
